---- MODULE Spec2Model ----
(***************************************************************************)
(* Model of the predict-os backend (axum): the four request handlers       *)
(* (analyze-event-markets, limit-order-bot, position-tracker,              *)
(* polyfactual-research), the per-provider AI retry loop with the          *)
(* Grok -> OpenAI failover, and the ladder allocation engine.              *)
(*                                                                         *)
(* f64 values are modelled as extended rationals [n, d]:                   *)
(*   d > 0          the exact rational n/d in lowest terms,                *)
(*   d = 0, n = 0   NaN,                                                   *)
(*   d = 0, n = 1   +infinity,   d = 0, n = -1   -infinity.                *)
(* Rounding of finite results and the sign of zero are not modelled.       *)
(***************************************************************************)
EXTENDS Integers, Sequences, FiniteSets, TLC

VARIABLES
    endpoint,    \* which handler serves the request ("fn" for a bare engine call)
    request,     \* the deserialized request body
    env,         \* which provider credentials are set in the process environment
    pc,          \* position of the handler
    provider,    \* analyze handler: the `provider` local
    ai_client,   \* analyze handler: provider_name() of the `ai_client` local
    active,      \* provider whose call_with_retry loop is running
    attempt,     \* call_with_retry: the loop variable `attempt`
    last_error,  \* call_with_retry: the `last_error` local
    retries,     \* analyze handler: the `retries` local
    market,      \* the fetched MarketData (its outcomes)
    queue,       \* limit-order handler: ladder entries not yet submitted
    inflight,    \* limit-order handler: the place_order call being awaited
    held,        \* limit-order handler: simple-mode results not yet pushed
    orders,      \* limit-order handler: the `orders` Vec
    positions,   \* position-tracker handler: the `positions` Vec
    upstream,    \* log of upstream calls made for this request, in order
    sink,        \* the entries the order sink has received, in order
    response,    \* what the handler returned to the caller
    fn_out       \* result of a bare calculate_ladder_orders call

vars == <<endpoint, request, env, pc, provider, ai_client, active, attempt,
          last_error, retries, market, queue, inflight, held, orders,
          positions, upstream, sink, response, fn_out>>

(***************************************************************************)
(* f64 arithmetic                                                          *)
(***************************************************************************)
Abs(x) == IF x < 0 THEN -x ELSE x

Sign(x) == IF x < 0 THEN -1 ELSE IF x > 0 THEN 1 ELSE 0

RECURSIVE GCD(_, _)
GCD(a, b) == IF b = 0 THEN a ELSE GCD(b, a % b)

Norm(n, d) ==
    IF d = 0 THEN [n |-> Sign(n), d |-> 0]
    ELSE LET g == GCD(Abs(n), Abs(d))
             s == Sign(d)
         IN  [n |-> (s * n) \div g, d |-> (s * d) \div g]

F(n, d) == Norm(n, d)

NaN == [n |-> 0, d |-> 0]

IsNaN(x) == x.d = 0 /\ x.n = 0

IsInf(x) == x.d = 0 /\ x.n # 0

IsFinite(x) == x.d > 0

FAdd(x, y) ==
    IF IsNaN(x) \/ IsNaN(y) THEN NaN
    ELSE IF IsInf(x) /\ IsInf(y) THEN (IF x.n = y.n THEN x ELSE NaN)
    ELSE Norm(x.n * y.d + y.n * x.d, x.d * y.d)

FNeg(x) == [n |-> -x.n, d |-> x.d]

FSub(x, y) == FAdd(x, FNeg(y))

FMul(x, y) == Norm(x.n * y.n, x.d * y.d)

FDiv(x, y) ==
    LET s == IF y.n < 0 THEN -1 ELSE 1
    IN  Norm(s * x.n * y.d, s * x.d * y.n)

FLess(x, y) ==
    IF IsNaN(x) \/ IsNaN(y) THEN FALSE
    ELSE IF IsInf(x) /\ IsInf(y) THEN x.n < y.n
    ELSE x.n * y.d < y.n * x.d

FLeq(x, y) == ~IsNaN(x) /\ ~IsNaN(y) /\ ~FLess(y, x)

\* f64::max: a NaN operand is ignored
FMax(x, y) ==
    IF IsNaN(x) THEN y
    ELSE IF IsNaN(y) THEN x
    ELSE IF FLess(x, y) THEN y ELSE x

RECURSIVE Pow2(_)
Pow2(k) == IF k <= 0 THEN 1 ELSE 2 * Pow2(k - 1)

RECURSIVE FSum(_)
FSum(s) == IF s = <<>> THEN F(0, 1) ELSE FAdd(Head(s), FSum(Tail(s)))

(***************************************************************************)
(* Ladder allocation engine: PolymarketClient::calculate_ladder_orders     *)
(***************************************************************************)
min_shares == F(5, 1)

PriceOverLevels(price_levels, min_price, max_price, i) ==
    FAdd(min_price,
         FMul(FSub(max_price, min_price),
              FDiv(F(i, 1), F(price_levels, 1))))

\* price of the level with 0-based index i
LadderPrice(price_levels, min_price, max_price, i) ==
    FAdd(min_price,
         FMul(FSub(max_price, min_price),
              FDiv(F(i, 1), F(price_levels - 1, 1))))

WeightExpAscending(price_levels, i) == i + 1

LadderWeightExp(price_levels, i) == price_levels - i

LadderWeight(price_levels, i) == F(Pow2(LadderWeightExp(price_levels, i)), 1)

LadderNormalizer(price_levels) == F(Pow2(price_levels) - 1, 1)

LadderAllocation(bankroll_usd, price_levels, i) ==
    FDiv(FMul(bankroll_usd, LadderWeight(price_levels, i)),
         LadderNormalizer(price_levels))

LadderShares(allocation, price) == FMax(FDiv(allocation, price), min_shares)

calculate_ladder_orders(bankroll_usd, price_levels, min_price, max_price) ==
    [k \in 1..price_levels |->
        LET price == LadderPrice(price_levels, min_price, max_price, k - 1)
            allocation == LadderAllocation(bankroll_usd, price_levels, k - 1)
        IN  [price |-> price, shares |-> LadderShares(allocation, price)]]

(***************************************************************************)
(* Requests, environment and upstream replies                              *)
(***************************************************************************)
MaxRetriesPlusOne == 3 + 1

\* const MAX_RETRIES: u32 = 3 (grok.rs and openai.rs)
MAX_RETRIES == 3

DefaultPriceLevels == 5

MaxLevels == 3

MaxPositions == 2

\* Option::None of a request field
None == "none"

Urls == {"", "ftp://example.org/x", "https://polymarket.com/event/btc-up"}

Models == {None, "grok", "openai", "claude"}

AnalyzeRequests == [url : Urls, model : Models]

Bankrolls == {-1, 0, 10, 100}

LimitRequests ==
    [wallet_private_key : {"", "0xkey"}, bankroll_usd : Bankrolls,
     mode : {"simple", "ladder"}, price_levels : {-1} \cup (0..MaxLevels)]

TrackerRequests == [wallet_address : {"", "0xwallet"}]

ResearchRequests == [query : {"", "btc?", "over-long"}]

Envs == [grok : BOOLEAN, openai : BOOLEAN]

Outcome(id, name, price) == [id |-> id, name |-> name, price |-> price]

\* outcome labels, as character sequences
Up == <<"U", "p">>

Down == <<"D", "o", "w", "n">>

Yes == <<"Y", "e", "s">>

No == <<"N", "o">>

UpOrDown == Up \o <<" ", "o", "r", " ">> \o Down

Markets ==
    { <<>>,
      <<Outcome("t0", Up, F(1, 2))>>,
      <<Outcome("t0", Up, F(1, 2)), Outcome("t1", Down, F(1, 2))>>,
      <<Outcome("t0", Up, F(0, 1)), Outcome("t1", Down, F(1, 1))>>,
      <<Outcome("t0", Yes, F(3, 5)), Outcome("t1", No, F(2, 5))>>,
      <<Outcome("t0", UpOrDown, F(1, 4)), Outcome("t1", Down, F(1, 4)),
        Outcome("t2", No, F(1, 2))>> }

\* the market DomeClient::get_market_by_url builds: two sides, prices 0.0
DomeMarket ==
    <<Outcome("a", Yes, F(0, 1)), Outcome("b", No, F(0, 1))>>

\* replies of an upstream HTTP call: success, a non-2xx status, or the client's
\* timeout; "empty" is a 2xx reply without the expected content
HttpReplies == {"ok", "bad_status", "timeout"}

Call(svc, res, n) == [svc |-> svc, res |-> res, n |-> n]

NoResponse == [status |-> "none"]

Fail(kind, from) == [status |-> "err", kind |-> kind, from |-> from]

AiServices == {"grok", "openai"}

AiCalls(log, svc) == SelectSeq(log, LAMBDA c : c.svc = svc)

AllAiCalls(log) == SelectSeq(log, LAMBDA c : c.svc \in AiServices)

DataCalls(log) == SelectSeq(log, LAMBDA c : c.svc # "sleep")

(***************************************************************************)
(* analyze-event-markets handler and the provider retry loop               *)
(***************************************************************************)
SelectGrok(model) == "grok"

\* analyze_event_markets.rs: match request.model.as_deref()
SelectProvider(model) == IF model = "openai" THEN "openai" ELSE "grok"

UrlMissing(url) == url = ""

\* DomeClient::extract_identifier / detect_platform accept the URL
UrlIdentified(url) == url = "https://polymarket.com/event/btc-up"

ClientAlwaysCreated(e, p) == TRUE

\* GrokClient::new / OpenAiClient::new: the credential is in the environment
CanCreateClient(e, p) == e[p]

FailoverAlways(p) == TRUE

\* matches!(provider, AiProvider::Grok)
FailoverApplies(p) == p = "grok"

\* 2_u64.pow(attempt) * 100
BackoffMillis(a) == Pow2(a) * 100

SleepsAlways(a) == a < MAX_RETRIES

\* if attempt < MAX_RETRIES - 1 { sleep }
SleepsAfter(a) == a < MAX_RETRIES - 1

LoopContinuesInclusive(a) == a + 1 <= MAX_RETRIES

\* for attempt in 0..MAX_RETRIES: another iteration follows iteration a
LoopContinues(a) == a + 1 < MAX_RETRIES

AnalyzeStart ==
    /\ endpoint = "analyze" /\ pc = "start"
    /\ IF UrlMissing(request.url)
       THEN /\ response' = Fail("Validation", "handler")
            /\ pc' = "done"
            /\ UNCHANGED provider
       ELSE /\ provider' = SelectProvider(request.model)
            /\ IF UrlIdentified(request.url)
               THEN pc' = "dome" /\ UNCHANGED response
               ELSE /\ response' = Fail("Validation", "dome")
                    /\ pc' = "done"
    /\ UNCHANGED <<endpoint, request, env, ai_client, active, attempt,
                   last_error, retries, market, queue, inflight, held,
                   orders, positions, upstream, sink, fn_out>>

\* get_market_by_url returns; on success the prompt is built and the client made
AnalyzeFetch ==
    /\ endpoint = "analyze" /\ pc = "dome"
    /\ \E res \in HttpReplies \cup {"empty"} :
        /\ upstream' = Append(upstream, Call("dome", res, 0))
        /\ IF res # "ok"
           THEN /\ response' = Fail("ExternalApi", "dome")
                /\ pc' = "done"
                /\ UNCHANGED <<market, ai_client, active, attempt>>
           ELSE /\ market' = DomeMarket
                /\ IF CanCreateClient(env, provider)
                   THEN /\ ai_client' = provider
                        /\ active' = provider
                        /\ attempt' = 0
                        /\ pc' = "primary"
                        /\ UNCHANGED response
                   ELSE /\ response' = Fail("Validation", provider)
                        /\ pc' = "done"
                        /\ UNCHANGED <<ai_client, active, attempt>>
    /\ UNCHANGED <<endpoint, request, env, provider, last_error, retries,
                   queue, inflight, held, orders, positions, sink, fn_out>>

\* one iteration of call_with_retry whose call_api succeeds
CallApiOk ==
    /\ endpoint = "analyze" /\ pc \in {"primary", "failover"}
    /\ upstream' = Append(upstream, Call(active, "ok", attempt + 1))
    /\ response' = [status |-> "ok", by |-> active, model_used |-> ai_client,
                    retries |-> retries]
    /\ pc' = "done"
    /\ UNCHANGED <<endpoint, request, env, provider, ai_client, active,
                   attempt, last_error, retries, market, queue, inflight,
                   held, orders, positions, sink, fn_out>>

\* one iteration of call_with_retry whose call_api fails, with the sleep that
\* follows it; when the loop ends its Err goes to the handler's match, which
\* fails over (retries = 1, a new OpenAI client, its first loop) or returns
RetriesCountAttempts == attempt + 1

\* retries = 1 in the failover arm
RetriesAfterFailover == 1

CallApiErr ==
    /\ endpoint = "analyze" /\ pc \in {"primary", "failover"}
    /\ \E res \in HttpReplies \ {"ok"} :
        LET called == Append(upstream, Call(active, res, attempt + 1))
            e == Fail("ExternalApi", active)
        IN
        /\ last_error' = e
        /\ upstream' = IF SleepsAfter(attempt)
                       THEN Append(called,
                                   Call("sleep", "-", BackoffMillis(attempt)))
                       ELSE called
        /\ IF LoopContinues(attempt)
           THEN /\ attempt' = attempt + 1
                /\ UNCHANGED <<pc, active, retries, response>>
           ELSE IF pc = "primary" /\ FailoverApplies(provider)
           THEN /\ retries' = RetriesAfterFailover
                /\ IF CanCreateClient(env, "openai")
                   THEN /\ active' = "openai"
                        /\ attempt' = 0
                        /\ pc' = "failover"
                        /\ UNCHANGED response
                   ELSE /\ response' = Fail("Validation", "openai")
                        /\ pc' = "done"
                        /\ attempt' = attempt + 1
                        /\ UNCHANGED active
           ELSE /\ response' = e
                /\ pc' = "done"
                /\ attempt' = attempt + 1
                /\ UNCHANGED <<active, retries>>
    /\ UNCHANGED <<endpoint, request, env, provider, ai_client, market, queue,
                   inflight, held, orders, positions, sink, fn_out>>

(***************************************************************************)
(* limit-order-bot handler                                                 *)
(***************************************************************************)
KeyMissing(key) == key = ""

BankrollNegative(b) == b < 0

BankrollRejected(b) == b <= 0

\* request.price_levels.unwrap_or(5)
PriceLevels(req) ==
    IF req.price_levels = -1 THEN DefaultPriceLevels ELSE req.price_levels

LadderMin == F(1, 100)

LadderMax == F(99, 100)

Entry(token, idx, price, shares) ==
    [token |-> token, idx |-> idx, price |-> price, shares |-> shares]

Tagged(token, ladder) ==
    [k \in 1..Len(ladder) |->
        Entry(token, k - 1, ladder[k].price, ladder[k].shares)]

UpTwice(up_ladder, down_ladder) ==
    Tagged("up", up_ladder) \o Tagged("up", up_ladder)

DownFirst(up_ladder, down_ladder) ==
    Tagged("down", down_ladder) \o Tagged("up", up_ladder)

\* the order in which the two for loops of ladder mode reach place_order
LadderSequence(up_ladder, down_ladder) ==
    Tagged("up", up_ladder) \o Tagged("down", down_ladder)

\* the two place_order calls of simple mode
SimpleSequence(m, bankroll) ==
    LET allocation_per_side == FDiv(bankroll, F(2, 1))
    IN  << Entry("up", 0, m[1].price,
                 FMax(FDiv(allocation_per_side, m[1].price), F(5, 1))),
           Entry("down", 0, m[2].price,
                 FMax(FDiv(allocation_per_side, m[2].price), F(5, 1))) >>

Emitted(req, m) ==
    IF req.mode = "simple"
    THEN SimpleSequence(m, F(req.bankroll_usd, 1))
    ELSE LET side == calculate_ladder_orders(
                         FDiv(F(req.bankroll_usd, 1), F(2, 1)),
                         PriceLevels(req), LadderMin, LadderMax)
         IN  LadderSequence(side, side)

\* PolymarketClient::place_order's Ok value; token and idx record which
\* emitted entry the result belongs to
OrderResult(m, e) ==
    [token_id |-> IF e.token = "up" THEN m[1].id ELSE m[2].id,
     token |-> e.token, idx |-> e.idx,
     outcome |-> "Unknown", side |-> "buy", price |-> e.price,
     size |-> e.shares, order_id |-> None, status |-> "pending"]

TooFewOnlyForOrders(m) == Len(m) < 2 /\ endpoint = "limit"

TooFewOutcomes(m) == Len(m) < 2

LimitStart ==
    /\ endpoint = "limit" /\ pc = "start"
    /\ IF KeyMissing(request.wallet_private_key)
          \/ BankrollRejected(request.bankroll_usd)
       THEN response' = Fail("Validation", "handler") /\ pc' = "done"
       ELSE pc' = "gamma" /\ UNCHANGED response
    /\ UNCHANGED <<endpoint, request, env, provider, ai_client, active,
                   attempt, last_error, retries, market, queue, inflight,
                   held, orders, positions, upstream, sink, fn_out>>

\* get_market_by_slug returns; on success the orders are computed and the
\* first place_order call is started
LimitFetch ==
    /\ endpoint = "limit" /\ pc = "gamma"
    /\ \E res \in HttpReplies, m \in Markets :
        /\ upstream' = Append(upstream, Call("gamma", res, 0))
        /\ IF res # "ok"
           THEN /\ response' = Fail("ExternalApi", "gamma")
                /\ pc' = "done"
                /\ UNCHANGED <<market, queue, inflight>>
           ELSE /\ market' = m
                /\ IF TooFewOutcomes(m)
                   THEN /\ response' = Fail("Validation", "handler")
                        /\ pc' = "done"
                        /\ UNCHANGED <<queue, inflight>>
                   ELSE LET seq == Emitted(request, m)
                        IN  IF seq = <<>>
                            THEN /\ response' = [status |-> "ok",
                                                 orders |-> <<>>]
                                 /\ pc' = "done"
                                 /\ UNCHANGED <<queue, inflight>>
                            ELSE /\ inflight' = <<Head(seq)>>
                                 /\ queue' = Tail(seq)
                                 /\ pc' = "placing"
                                 /\ UNCHANGED response
    /\ UNCHANGED <<endpoint, request, env, provider, ai_client, active,
                   attempt, last_error, retries, held, orders, positions,
                   sink, fn_out>>

\* place_order returns Ok: simple mode keeps the result in a local until both
\* calls are back, ladder mode pushes it; then the next call starts or the
\* response is built
PlaceOrderOk ==
    /\ endpoint = "limit" /\ pc = "placing" /\ inflight # <<>>
    /\ LET e == inflight[1]
           r == OrderResult(market, e)
           simple == request.mode = "simple"
           held2 == IF simple THEN Append(held, r) ELSE held
           orders2 == IF simple
                      THEN (IF queue = <<>> THEN held2 ELSE orders)
                      ELSE Append(orders, r)
       IN
       /\ upstream' = Append(upstream, Call("clob", "ok", Len(sink) + 1))
       /\ sink' = Append(sink, e)
       /\ held' = held2
       /\ orders' = orders2
       /\ IF queue = <<>>
          THEN /\ inflight' = <<>>
               /\ response' = [status |-> "ok", orders |-> orders2]
               /\ pc' = "done"
               /\ UNCHANGED queue
          ELSE /\ inflight' = <<Head(queue)>>
               /\ queue' = Tail(queue)
               /\ UNCHANGED <<pc, response>>
    /\ UNCHANGED <<endpoint, request, env, provider, ai_client, active,
                   attempt, last_error, retries, market, positions, fn_out>>

\* place_order returns Err: the `?` returns the error from the handler
PlaceOrderErr ==
    /\ endpoint = "limit" /\ pc = "placing" /\ inflight # <<>>
    /\ upstream' = Append(upstream, Call("clob", "err", Len(sink) + 1))
    /\ sink' = Append(sink, inflight[1])
    /\ inflight' = <<>>
    /\ response' = Fail("ExternalApi", "clob")
    /\ pc' = "done"
    /\ UNCHANGED <<endpoint, request, env, provider, ai_client, active,
                   attempt, last_error, retries, market, queue, held, orders,
                   positions, fn_out>>

(***************************************************************************)
(* position-tracker handler                                                *)
(***************************************************************************)
WalletMissing(w) == w = ""

ContainsExact(label, pat) == label = pat

\* str::contains
Contains(label, pat) ==
    \E i \in 1..(Len(label) - Len(pat) + 1) :
        SubSeq(label, i, i + Len(pat) - 1) = pat

PositionData(token_id, avg, cur, shares) ==
    [token_id |-> token_id, avg_price |-> avg, current_price |-> cur,
     shares |-> shares]

Holdings ==
    { PositionData(t, q[1], q[2], F(10, 1)) :
        t \in {"t0", "t1", "t2"},
        q \in { <<F(2, 5), F(3, 5)>>, <<F(11, 20), F(3, 10)>>,
                <<F(1, 2), F(3, 10)>> } }

RECURSIVE SeqsUpTo(_, _)
SeqsUpTo(S, n) ==
    IF n = 0 THEN {<<>>}
    ELSE LET shorter == SeqsUpTo(S, n - 1)
         IN  shorter \cup { Append(q, x) : q \in shorter, x \in S }

PositionReplies == SeqsUpTo(Holdings, MaxPositions)

TokenIds(m) == { m[k].id : k \in 1..Len(m) }

\* get_market_position: .filter(|p| token_ids.contains(&p.token_id))
FilterByToken(data, m) == SelectSeq(data, LAMBDA p : p.token_id \in TokenIds(m))

\* market.outcomes.iter().find(|o| o.id == p.token_id) ... unwrap_or("Unknown")
OutcomeName(m, token_id) ==
    IF \E k \in 1..Len(m) : m[k].id = token_id
    THEN m[CHOOSE k \in 1..Len(m) :
               /\ m[k].id = token_id
               /\ \A l \in 1..(k - 1) : m[l].id # token_id].name
    ELSE <<"U", "n", "k", "n", "o", "w", "n">>

ToPositionFlipped(m, p) ==
    [token_id |-> p.token_id, outcome |-> OutcomeName(m, p.token_id),
     shares |-> p.shares, avg_price |-> p.avg_price,
     current_price |-> p.current_price,
     unrealized_pnl |-> FMul(FSub(p.avg_price, p.current_price), p.shares)]

ToPosition(m, p) ==
    [token_id |-> p.token_id, outcome |-> OutcomeName(m, p.token_id),
     shares |-> p.shares, avg_price |-> p.avg_price,
     current_price |-> p.current_price,
     unrealized_pnl |-> FMul(FSub(p.current_price, p.avg_price), p.shares)]

\* positions.iter().find(..): index of the first match, 0 when there is none
FindLabel(ps, pat) ==
    IF \E k \in 1..Len(ps) : Contains(ps[k].outcome, pat)
    THEN CHOOSE k \in 1..Len(ps) :
             /\ Contains(ps[k].outcome, pat)
             /\ \A l \in 1..(k - 1) : ~Contains(ps[l].outcome, pat)
    ELSE 0

PairResultSwapped(status, profit_lock, break_even) ==
    [pair_status |-> status, profit_lock |-> break_even,
     break_even |-> profit_lock]

PairResult(status, profit_lock, break_even) ==
    [pair_status |-> status, profit_lock |-> profit_lock,
     break_even |-> break_even]

\* Option<f64>: <<>> is None, <<x>> is Some(x)
calculate_pair_status(ps) ==
    IF Len(ps) < 2 THEN PairResult("NO_POSITION", <<>>, <<>>)
    ELSE LET u == FindLabel(ps, Up)
             d == FindLabel(ps, Down)
         IN  IF u = 0 \/ d = 0 THEN PairResult("NO_POSITION", <<>>, <<>>)
             ELSE LET total_pnl == FAdd(ps[u].unrealized_pnl,
                                        ps[d].unrealized_pnl)
                  IN  IF FLess(F(0, 1), total_pnl)
                      THEN PairResult("PROFIT_LOCKED", <<total_pnl>>, <<>>)
                      ELSE IF total_pnl = F(0, 1)
                      THEN PairResult("BREAK_EVEN", <<>>, <<F(0, 1)>>)
                      ELSE PairResult("AT_RISK", <<>>,
                               <<FDiv(FAdd(ps[u].avg_price, ps[d].avg_price),
                                      F(2, 1))>>)

TrackerStart ==
    /\ endpoint = "tracker" /\ pc = "start"
    /\ IF WalletMissing(request.wallet_address)
       THEN response' = Fail("Validation", "handler") /\ pc' = "done"
       ELSE pc' = "gamma" /\ UNCHANGED response
    /\ UNCHANGED <<endpoint, request, env, provider, ai_client, active,
                   attempt, last_error, retries, market, queue, inflight,
                   held, orders, positions, upstream, sink, fn_out>>

TrackerFetchMarket ==
    /\ endpoint = "tracker" /\ pc = "gamma"
    /\ \E res \in HttpReplies, m \in Markets :
        /\ upstream' = Append(upstream, Call("gamma", res, 0))
        /\ IF res # "ok"
           THEN /\ response' = Fail("ExternalApi", "gamma")
                /\ pc' = "done"
                /\ UNCHANGED market
           ELSE /\ market' = m
                /\ IF TooFewOutcomes(m)
                   THEN response' = Fail("Validation", "handler") /\ pc' = "done"
                   ELSE pc' = "data" /\ UNCHANGED response
    /\ UNCHANGED <<endpoint, request, env, provider, ai_client, active,
                   attempt, last_error, retries, queue, inflight, held,
                   orders, positions, sink, fn_out>>

\* get_market_position returns; the positions are built and classified
TrackerFetchPositions ==
    /\ endpoint = "tracker" /\ pc = "data"
    /\ \E res \in HttpReplies, data \in PositionReplies :
        /\ upstream' = Append(upstream, Call("data", res, 0))
        /\ pc' = "done"
        /\ IF res # "ok"
           THEN /\ response' = Fail("ExternalApi", "data")
                /\ UNCHANGED positions
           ELSE LET kept == FilterByToken(data, market)
                    ps == [k \in 1..Len(kept) |-> ToPosition(market, kept[k])]
                IN  /\ positions' = ps
                    /\ response' = [status |-> "ok", positions |-> ps,
                                    pair |-> calculate_pair_status(ps)]
    /\ UNCHANGED <<endpoint, request, env, provider, ai_client, active,
                   attempt, last_error, retries, market, queue, inflight,
                   held, orders, sink, fn_out>>

(***************************************************************************)
(* polyfactual-research handler                                            *)
(***************************************************************************)
QueryMissing(q) == q = ""

\* PolyfactualClient::research: query.len() > MAX_QUERY_LENGTH
QueryTooLong(q) == q = "over-long"

ResearchStart ==
    /\ endpoint = "research" /\ pc = "start"
    /\ IF QueryMissing(request.query)
       THEN response' = Fail("Validation", "handler") /\ pc' = "done"
       ELSE IF QueryTooLong(request.query)
       THEN response' = Fail("Validation", "polyfactual") /\ pc' = "done"
       ELSE pc' = "polyfactual" /\ UNCHANGED response
    /\ UNCHANGED <<endpoint, request, env, provider, ai_client, active,
                   attempt, last_error, retries, market, queue, inflight,
                   held, orders, positions, upstream, sink, fn_out>>

ResearchReply ==
    /\ endpoint = "research" /\ pc = "polyfactual"
    /\ \E res \in HttpReplies :
        /\ upstream' = Append(upstream, Call("polyfactual", res, 0))
        /\ response' = IF res = "ok" THEN [status |-> "ok"]
                       ELSE Fail("ExternalApi", "polyfactual")
        /\ pc' = "done"
    /\ UNCHANGED <<endpoint, request, env, provider, ai_client, active,
                   attempt, last_error, retries, market, queue, inflight,
                   held, orders, positions, sink, fn_out>>

(***************************************************************************)
(* The service: one request, any endpoint, any environment                 *)
(***************************************************************************)
Locals ==
    /\ pc = "start"
    /\ provider = None /\ ai_client = None /\ active = None
    /\ attempt = 0 /\ last_error = NoResponse /\ retries = 0
    /\ market = <<>> /\ queue = <<>> /\ inflight = <<>> /\ held = <<>>
    /\ orders = <<>> /\ positions = <<>> /\ upstream = <<>> /\ sink = <<>>
    /\ response = NoResponse /\ fn_out = <<>>

Init ==
    /\ \/ endpoint = "analyze" /\ request \in AnalyzeRequests /\ env \in Envs
       \/ /\ endpoint = "limit" /\ request \in LimitRequests
          /\ env = [grok |-> TRUE, openai |-> TRUE]
       \/ /\ endpoint = "tracker" /\ request \in TrackerRequests
          /\ env = [grok |-> TRUE, openai |-> TRUE]
       \/ /\ endpoint = "research" /\ request \in ResearchRequests
          /\ env = [grok |-> TRUE, openai |-> TRUE]
    /\ Locals

Next ==
    \/ AnalyzeStart
    \/ AnalyzeFetch
    \/ CallApiOk
    \/ CallApiErr
    \/ LimitStart
    \/ LimitFetch
    \/ PlaceOrderOk
    \/ TrackerStart
    \/ TrackerFetchMarket
    \/ TrackerFetchPositions
    \/ ResearchStart
    \/ ResearchReply

Spec == Init /\ [][Next]_vars

\* the same service with an order sink that can refuse an order
NextSink == Next \/ PlaceOrderErr

SpecSink == Init /\ [][NextSink]_vars

(***************************************************************************)
(* The ladder engine called on its own                                     *)
(***************************************************************************)
MaxCents == 3

LadderPrices == { F(c, 100) : c \in (-1)..MaxCents } \cup {F(1, 2), F(99, 100)}

LadderInputs ==
    [bankroll_usd : {F(1, 2), F(10, 1), F(100, 1)},
     price_levels : 0..(MaxLevels + 1),
     min_price : LadderPrices, max_price : LadderPrices]

InitLadder ==
    /\ endpoint = "fn" /\ request \in LadderInputs
    /\ env = [grok |-> TRUE, openai |-> TRUE]
    /\ Locals

ApplyLadder ==
    /\ endpoint = "fn" /\ pc = "start"
    /\ fn_out' = calculate_ladder_orders(request.bankroll_usd,
                     request.price_levels, request.min_price,
                     request.max_price)
    /\ pc' = "done"
    /\ UNCHANGED <<endpoint, request, env, provider, ai_client, active,
                   attempt, last_error, retries, market, queue, inflight,
                   held, orders, positions, upstream, sink, response>>

NextLadder == ApplyLadder

SpecLadder == InitLadder /\ [][NextLadder]_vars

(***************************************************************************)
(* AppError::into_response applied on its own                              *)
(***************************************************************************)
ErrorKinds ==
    {"Internal", "Validation", "ExternalApi", "RateLimit", "Timeout", "NotFound"}

ErrorMessages ==
    {"URL is required", "Wallet private key is required",
     "Bankroll must be greater than 0", "Market must have at least 2 outcomes",
     "Wallet address is required", "Query is required", "GROK_API_KEY not set",
     "OPENAI_API_KEY not set", "Unknown error", "Rate limit exceeded"}

AppErrors == [kind : ErrorKinds, msg : ErrorMessages]

StatusCodeMerged(kind) ==
    CASE kind = "Internal" -> 500
      [] kind = "Validation" -> 400
      [] kind = "ExternalApi" -> 502
      [] kind = "RateLimit" -> 429
      [] kind = "Timeout" -> 502
      [] kind = "NotFound" -> 404

\* the StatusCode of each match arm
StatusCode(kind) ==
    CASE kind = "Internal" -> 500
      [] kind = "Validation" -> 400
      [] kind = "ExternalApi" -> 502
      [] kind = "RateLimit" -> 429
      [] kind = "Timeout" -> 504
      [] kind = "NotFound" -> 404

\* the error_message of each match arm
ErrorMessage(e) ==
    IF e.kind = "RateLimit" THEN "Rate limit exceeded" ELSE e.msg

into_response(e) ==
    [status |-> "err", http_status |-> StatusCode(e.kind),
     body |-> [error |-> ErrorMessage(e), status |-> StatusCode(e.kind)]]

InitError ==
    /\ endpoint = "error" /\ request \in AppErrors
    /\ env = [grok |-> TRUE, openai |-> TRUE]
    /\ Locals

IntoResponse ==
    /\ endpoint = "error" /\ pc = "start"
    /\ response' = into_response(request)
    /\ pc' = "done"
    /\ UNCHANGED <<endpoint, request, env, provider, ai_client, active,
                   attempt, last_error, retries, market, queue, inflight,
                   held, orders, positions, upstream, sink, fn_out>>

NextError == IntoResponse

SpecError == InitError /\ [][NextError]_vars

(***************************************************************************)
(* Properties                                                              *)
(***************************************************************************)
Failed(calls) == \A k \in 1..Len(calls) : calls[k].res # "ok"

\* number of call_with_retry runs of a provider: each starts with attempt 1
Runs(svc) == Len(SelectSeq(AiCalls(upstream, svc), LAMBDA c : c.n = 1))

Exhausted(svc) ==
    /\ Len(AiCalls(upstream, svc)) = MAX_RETRIES
    /\ Failed(AiCalls(upstream, svc))

FirstAiCallIs(svc) ==
    /\ AllAiCalls(upstream) # <<>>
    /\ AllAiCalls(upstream)[1].svc = svc

\* C1 as stated: once Grok, invoked first, has failed all 3 attempts, any failure
\* the caller sees comes after exactly one OpenAI run; and a caller who selected
\* "openai" sees its failure directly, with no call to another provider.
C1_FailoverBeforeAnyFailure ==
    endpoint = "analyze" =>
        /\ (FirstAiCallIs("grok") /\ Exhausted("grok") /\ response.status = "err")
               => Runs("openai") = 1
        /\ request.model = "openai"
               => /\ AiCalls(upstream, "grok") = <<>>
                  /\ Runs("openai") <= 1
                  /\ Exhausted("openai")
                         => response = Fail("ExternalApi", "openai")

\* C1 amended: after Grok, invoked first, has failed all 3 attempts, the handler
\* makes the OpenAI client; if the credential is set OpenAI is run exactly once
\* before a failure is surfaced (and that failure is OpenAI's), if it is not set
\* the construction error is surfaced with no OpenAI call. A caller who selected
\* "openai" sees its failure directly, with no call to another provider.
C1_FailoverWhenClientAvailable ==
    endpoint = "analyze" =>
        /\ Runs("openai") <= 1 /\ Runs("grok") <= 1
        /\ (FirstAiCallIs("grok") /\ Exhausted("grok") /\ response.status = "err")
               => IF env.openai
                  THEN /\ Runs("openai") = 1
                       /\ Exhausted("openai")
                       /\ response = Fail("ExternalApi", "openai")
                  ELSE /\ Runs("openai") = 0
                       /\ response = Fail("Validation", "openai")
        /\ request.model = "openai"
               => /\ AiCalls(upstream, "grok") = <<>>
                  /\ Exhausted("openai")
                         => response = Fail("ExternalApi", "openai")

C1_Witness ==
    /\ endpoint = "analyze" /\ request.model = None
    /\ FirstAiCallIs("grok") /\ Exhausted("grok") /\ Exhausted("openai")
    /\ response = Fail("ExternalApi", "openai")

\* C2: for each provider the calls of one analyze_markets invocation are
\* numbered 1, 2, 3 at most; every call but the last one failed (so a call is
\* made only after failures and none follows a success); a success ends the
\* request; and the provider's error is returned only after 3 failed calls.
C2_BoundedRetry ==
    endpoint = "analyze" =>
        \A svc \in AiServices :
            LET calls == AiCalls(upstream, svc)
            IN  /\ Len(calls) <= 3
                /\ \A k \in 1..Len(calls) : calls[k].n = k
                /\ \A k \in 1..(Len(calls) - 1) : calls[k].res # "ok"
                /\ (calls # <<>> /\ calls[Len(calls)].res = "ok")
                       => pc = "done" /\ response.status = "ok"
                /\ response = Fail("ExternalApi", svc)
                       => Len(calls) = 3 /\ Failed(calls)
                /\ (svc = "grok" /\ pc = "failover")
                       => Len(calls) = 3 /\ Failed(calls)

C2_Witness ==
    /\ endpoint = "analyze"
    /\ Len(AiCalls(upstream, "grok")) = 3
    /\ AiCalls(upstream, "grok")[3].res = "ok"
    /\ response.status = "ok"

\* C3: one analyze request makes at most 6 AI completion calls in total, and
\* more than 3 only if Grok was invoked first and all 3 of its calls failed.
C3_TotalCallBudget ==
    endpoint = "analyze" =>
        /\ Len(AllAiCalls(upstream)) <= 6
        /\ Len(AllAiCalls(upstream)) > 3
               => /\ FirstAiCallIs("grok")
                  /\ Len(AiCalls(upstream, "grok")) = 3
                  /\ Failed(AiCalls(upstream, "grok"))

C3_Witness ==
    /\ endpoint = "analyze"
    /\ Len(AllAiCalls(upstream)) = 6

InvalidInput ==
    \/ endpoint = "analyze" /\ request.url = ""
    \/ endpoint = "limit" /\ (request.wallet_private_key = ""
                              \/ request.bankroll_usd <= 0)
    \/ endpoint = "tracker" /\ request.wallet_address = ""
    \/ endpoint = "research" /\ request.query = ""

\* C4: a request with an empty URL, an empty private key, a bankroll <= 0, an
\* empty wallet address or an empty query makes no upstream call at all and
\* ends with a Validation error raised by the handler.
C4_ValidationBeforeUpstream ==
    InvalidInput =>
        /\ upstream = <<>> /\ sink = <<>> /\ inflight = <<>>
        /\ pc \in {"start", "done"}
        /\ pc = "done" => response = Fail("Validation", "handler")
        /\ pc = "start" => response = NoResponse

C4_Witness ==
    /\ endpoint = "limit" /\ request.wallet_private_key # ""
    /\ request.bankroll_usd = 0
    /\ response = Fail("Validation", "handler")

ValidLimitRun ==
    /\ endpoint = "limit" /\ ~InvalidInput
    /\ market # <<>> /\ ~TooFewOutcomes(market)

\* what the k-th submission of a ladder of L levels per side must be
ExpectedToken(k, L) == IF k <= L THEN "up" ELSE "down"

ExpectedIdx(k, L) == IF k <= L THEN k - 1 ELSE k - L - 1

Started == sink \o inflight

\* C5: in a request that reaches the order sink, at most one submission is in
\* flight and it is the one right after those already returned; in ladder mode
\* with L levels the k-th submission is the Up order of level k-1 for k <= L
\* and the Down order of level k-L-1 after that, in simple mode Up then Down;
\* the request ends with exactly 2L (simple: 2) submissions made and the
\* response lists the orders in submission order.
C5_SequentialSubmission ==
    ValidLimitRun =>
        LET L == IF request.mode = "ladder" THEN PriceLevels(request) ELSE 1
        IN  /\ Len(inflight) <= 1
            /\ Len(Started) <= 2 * L
            /\ \A k \in 1..Len(Started) :
                   /\ Started[k].token = ExpectedToken(k, L)
                   /\ Started[k].idx = ExpectedIdx(k, L)
            /\ pc = "done"
                   => /\ response.status = "ok"
                      /\ inflight = <<>>
                      /\ Len(sink) = 2 * L
                      /\ Len(response.orders) = Len(sink)
                      /\ \A k \in 1..Len(sink) :
                             /\ response.orders[k].token = sink[k].token
                             /\ response.orders[k].idx = sink[k].idx
                             /\ response.orders[k].price = sink[k].price
                             /\ response.orders[k].size = sink[k].shares
                             /\ response.orders[k].token_id
                                    = (IF k <= L THEN market[1].id
                                       ELSE market[2].id)

C5_Witness ==
    /\ ValidLimitRun /\ request.mode = "ladder" /\ request.price_levels = 3
    /\ pc = "done" /\ Len(sink) = 6 /\ Len(response.orders) = 6

\* C6: when a submission fails after earlier submissions of the request
\* succeeded, the caller receives the orders submitted so far with the failure.
C6_PartialSuccessReported ==
    (/\ endpoint = "limit"
     /\ response = Fail("ExternalApi", "clob")
     /\ Len(sink) >= 2)
        => /\ "orders" \in DOMAIN response
           /\ Len(response.orders) = Len(sink) - 1

LadderDone == endpoint = "fn" /\ pc = "done"

ValidLadderInput ==
    /\ request.price_levels >= 2
    /\ FLess(request.min_price, request.max_price)
    /\ FLess(F(0, 1), request.bankroll_usd)

Allocations(bankroll, L) ==
    [k \in 1..L |-> LadderAllocation(bankroll, L, k - 1)]

\* C8: for every valid ladder input the per-level allocations sum to at most
\* the bankroll passed to the engine.
C8_AllocationWithinBankroll ==
    (LadderDone /\ ValidLadderInput) =>
        FLeq(FSum(Allocations(request.bankroll_usd, request.price_levels)),
             request.bankroll_usd)

\* C9: ladderOrders(100, 3, 0.01, 0.99) returns the prices 0.01, 0.5, 0.99 with
\* the allocations 100*8/14, 100*4/14, 100*2/14, each size being
\* max(allocation / price, 5).
C9_ExampleNormalizedOverFourteen ==
    (/\ LadderDone
     /\ request = [bankroll_usd |-> F(100, 1), price_levels |-> 3,
                   min_price |-> F(1, 100), max_price |-> F(99, 100)])
        => fn_out = << [price |-> F(1, 100),
                        shares |-> FMax(FDiv(F(800, 14), F(1, 100)), F(5, 1))],
                       [price |-> F(1, 2),
                        shares |-> FMax(FDiv(F(400, 14), F(1, 2)), F(5, 1))],
                       [price |-> F(99, 100),
                        shares |-> FMax(FDiv(F(200, 14), F(99, 100)), F(5, 1))] >>

\* C10: with levels = 1 the engine never divides by levels - 1 = 0: every price
\* it returns, and every price the limit-order-bot handler submits, is a
\* number (the result is a defined single level, or the call is rejected).
C10_SingleLevelGuarded ==
    /\ (LadderDone /\ request.price_levels = 1)
           => \A k \in 1..Len(fn_out) : IsFinite(fn_out[k].price)
    /\ (endpoint = "limit" /\ request.mode = "ladder"
        /\ request.price_levels = 1)
           => \A k \in 1..Len(Started) : IsFinite(Started[k].price)


\* C11: in a ladder computed for a positive bankroll the weight of level i is
\* 2^(levels - i), so for any two levels i < j the weight and the allocation of
\* level i are strictly greater than those of level j.
C11_WeightsDecrease ==
    (LadderDone /\ FLess(F(0, 1), request.bankroll_usd)) =>
        LET L == request.price_levels
            b == request.bankroll_usd
        IN  /\ \A i \in 0..(L - 1) :
                   LadderWeight(L, i).d = 1
                   /\ LadderWeight(L, i).n * Pow2(i) = Pow2(L)
            /\ \A i, j \in 0..(L - 1) :
                   i < j => /\ FLess(LadderWeight(L, j), LadderWeight(L, i))
                            /\ FLess(LadderAllocation(b, L, j),
                                     LadderAllocation(b, L, i))

C11_Witness ==
    /\ LadderDone /\ request.price_levels = 3
    /\ LadderWeight(3, 0) = F(8, 1) /\ LadderWeight(3, 2) = F(2, 1)
    /\ FLess(LadderAllocation(request.bankroll_usd, 3, 2),
             LadderAllocation(request.bankroll_usd, 3, 0))


TrackerDone == endpoint = "tracker" /\ response.status = "ok"

Verdicts == {"PROFIT_LOCKED", "BREAK_EVEN", "AT_RISK", "NO_POSITION"}

\* C12: the classifier returns one of the four verdicts; profitLock is
\* populated exactly when the verdict is PROFIT_LOCKED, breakEven exactly when
\* it is AT_RISK or BREAK_EVEN; never both, and neither for NO_POSITION.
C12_VerdictFigures ==
    TrackerDone =>
        LET p == response.pair
        IN  /\ p.pair_status \in Verdicts
            /\ Len(p.profit_lock) <= 1 /\ Len(p.break_even) <= 1
            /\ p.profit_lock # <<>> <=> p.pair_status = "PROFIT_LOCKED"
            /\ p.break_even # <<>> <=> p.pair_status \in {"AT_RISK", "BREAK_EVEN"}
            /\ ~(p.profit_lock # <<>> /\ p.break_even # <<>>)
            /\ p.pair_status = "NO_POSITION"
                   => p.profit_lock = <<>> /\ p.break_even = <<>>

C12_Witness ==
    /\ TrackerDone /\ Len(response.positions) = 2
    /\ response.pair.pair_status = "PROFIT_LOCKED"
    /\ response.pair.profit_lock # <<>>


\* the labels of the modelled markets that contain "Up", and "Down"
UpLabels == {Up, UpOrDown}

DownLabels == {Down, UpOrDown}

HasSide(ps, labels) == \E k \in 1..Len(ps) : ps[k].outcome \in labels

FirstOf(ps, labels) ==
    ps[CHOOSE k \in 1..Len(ps) :
           /\ ps[k].outcome \in labels
           /\ \A l \in 1..(k - 1) : ps[l].outcome \notin labels]

BothSides(ps) ==
    /\ Len(ps) >= 2 /\ HasSide(ps, UpLabels) /\ HasSide(ps, DownLabels)

\* C13: every position's unrealized P&L is (current - average) * shares, and
\* when an Up and a Down position are present the verdict follows
\* totalPnl = up.unrealizedPnl + down.unrealizedPnl: positive gives
\* PROFIT_LOCKED with profitLock = totalPnl, zero gives BREAK_EVEN with
\* breakEven = 0, negative gives AT_RISK with breakEven the mean of the two
\* average prices.
C13_VerdictByTotalPnl ==
    TrackerDone =>
        LET ps == response.positions
            p == response.pair
        IN  /\ \A k \in 1..Len(ps) :
                   ps[k].unrealized_pnl
                       = FMul(FSub(ps[k].current_price, ps[k].avg_price),
                              ps[k].shares)
            /\ BothSides(ps) =>
                   LET up == FirstOf(ps, UpLabels)
                       down == FirstOf(ps, DownLabels)
                       total == FAdd(up.unrealized_pnl, down.unrealized_pnl)
                   IN  /\ FLess(F(0, 1), total)
                              => p = [pair_status |-> "PROFIT_LOCKED",
                                      profit_lock |-> <<total>>,
                                      break_even |-> <<>>]
                       /\ total = F(0, 1)
                              => p = [pair_status |-> "BREAK_EVEN",
                                      profit_lock |-> <<>>,
                                      break_even |-> <<F(0, 1)>>]
                       /\ FLess(total, F(0, 1))
                              => p = [pair_status |-> "AT_RISK",
                                      profit_lock |-> <<>>,
                                      break_even |->
                                          <<FDiv(FAdd(up.avg_price,
                                                      down.avg_price),
                                                 F(2, 1))>>]

\* the example: up {0.4, 0.6, 10 shares}, down {0.55, 0.3, 10 shares}
C13_Witness ==
    /\ TrackerDone /\ Len(response.positions) = 2
    /\ response.positions[1].outcome = Up
    /\ response.positions[1].avg_price = F(2, 5)
    /\ response.positions[1].current_price = F(3, 5)
    /\ response.positions[2].outcome = Down
    /\ response.positions[2].avg_price = F(11, 20)
    /\ response.positions[2].current_price = F(3, 10)
    /\ FAdd(response.positions[1].unrealized_pnl,
            response.positions[2].unrealized_pnl) = F(-1, 2)
    /\ response.pair = [pair_status |-> "AT_RISK", profit_lock |-> <<>>,
                        break_even |-> <<F(19, 40)>>]


\* C14: the verdict is NO_POSITION, with no figures, exactly when fewer than 2
\* positions are supplied or no position's label contains "Up" or none
\* contains "Down".
C14_NoPosition ==
    TrackerDone =>
        LET ps == response.positions
            p == response.pair
        IN  /\ p.pair_status = "NO_POSITION" <=> ~BothSides(ps)
            /\ ~BothSides(ps)
                   => p = [pair_status |-> "NO_POSITION",
                           profit_lock |-> <<>>, break_even |-> <<>>]

\* the example: a single Up position
C14_Witness ==
    /\ TrackerDone /\ Len(response.positions) = 1
    /\ response.positions[1].outcome = Up
    /\ response.pair.pair_status = "NO_POSITION"


LastCall == DataCalls(upstream)[Len(DataCalls(upstream))]

\* C15: when the upstream call whose failure the handler returns ended by the
\* client's timeout, the error surfaced is of the Timeout class.
C15_TimeoutSurfacedAsTimeout ==
    (/\ response.status = "err"
     /\ DataCalls(upstream) # <<>>
     /\ LastCall.res = "timeout"
     /\ response.from = LastCall.svc)
        => response.kind = "Timeout"


MarketFetches == SelectSeq(upstream, LAMBDA c : c.svc \in {"dome", "gamma"})

\* C16: a request fetches the market snapshot at most once, and exactly once,
\* as its first upstream call, before any AI completion, position fetch or
\* order submission; a failed fetch is the request's only upstream call and its
\* error is the response. No order is submitted twice, and a refused submission
\* is the last upstream call of its request.
C16_NoRetryOfFetchOrSubmission ==
    /\ Len(MarketFetches) <= 1
    /\ (\E k \in 1..Len(upstream) :
            upstream[k].svc \in {"grok", "openai", "data", "clob"})
           => /\ Len(MarketFetches) = 1
              /\ upstream[1].svc \in {"dome", "gamma"}
              /\ upstream[1].res = "ok"
    /\ (endpoint \in {"analyze", "limit", "tracker"} /\ response.status = "ok")
           => Len(MarketFetches) = 1
    /\ (MarketFetches # <<>> /\ MarketFetches[1].res # "ok")
           => /\ Len(upstream) = 1
              /\ sink = <<>> /\ inflight = <<>> /\ positions = <<>>
              /\ pc = "done"
              /\ response = Fail("ExternalApi", MarketFetches[1].svc)
    /\ \A i, j \in 1..Len(Started) :
           i < j => <<Started[i].token, Started[i].idx>>
                        # <<Started[j].token, Started[j].idx>>
    /\ Len(SelectSeq(upstream, LAMBDA c : c.svc = "clob")) = Len(sink)
    /\ \A k \in 1..Len(upstream) :
           (upstream[k].svc = "clob" /\ upstream[k].res = "err")
               => /\ k = Len(upstream)
                  /\ inflight = <<>> /\ pc = "done"
                  /\ response = Fail("ExternalApi", "clob")

C16_Witness ==
    /\ endpoint = "limit" /\ Len(sink) = 3
    /\ upstream[Len(upstream)] = Call("clob", "err", 3)
    /\ Len(MarketFetches) = 1

C16_WitnessFetch ==
    /\ endpoint = "analyze" /\ upstream = <<Call("dome", "timeout", 0)>>
    /\ response = Fail("ExternalApi", "dome")


\* C17: the status of an error response identifies the error kind (no two
\* kinds share a status), it is an error status, and the payload carries that
\* status and the error's message.
C17_StatusIdentifiesKind ==
    (endpoint = "error" /\ pc = "done") =>
        /\ \A k \in ErrorKinds :
               StatusCode(k) = response.http_status => k = request.kind
        /\ response.http_status \in 400..599
        /\ DOMAIN response.body = {"error", "status"}
        /\ response.body.status = response.http_status
        /\ request.kind # "RateLimit" => response.body.error = request.msg
        /\ request.kind = "RateLimit"
               => response.body.error = "Rate limit exceeded"

C17_Witness ==
    /\ endpoint = "error" /\ pc = "done" /\ request.kind = "Timeout"
    /\ response.http_status = 504 /\ response.body.status = 504


\* C18: the first provider called is the one the request's model field names
\* ("openai" or "grok"), and Grok when the field is absent.
C18_FirstProvider ==
    (endpoint = "analyze" /\ AllAiCalls(upstream) # <<>>) =>
        /\ request.model = "openai" => AllAiCalls(upstream)[1].svc = "openai"
        /\ request.model = "grok" => AllAiCalls(upstream)[1].svc = "grok"
        /\ request.model = None => AllAiCalls(upstream)[1].svc = "grok"

C18_Witness ==
    /\ endpoint = "analyze" /\ request.model = "openai"
    /\ AllAiCalls(upstream) # <<>>
    /\ AllAiCalls(upstream)[1].svc = "openai"

IsAiCall(c) == c.svc \in AiServices

\* C20: in the log of a request every wait directly follows a failed call
\* number 1 or 2 of a provider and lasts 100 ms after call 1 and 200 ms after
\* call 2, and the call after it is the next call of the same provider; a
\* failed call 1 or 2 is always followed by its wait before anything else; a
\* failed call 3 is followed by no wait: what follows it, if anything, is the
\* first call of the failover provider.
C20_Backoff ==
    endpoint = "analyze" =>
        \A k \in 1..Len(upstream) :
            /\ upstream[k].svc = "sleep"
                   => /\ k > 1
                      /\ IsAiCall(upstream[k - 1])
                      /\ upstream[k - 1].res # "ok"
                      /\ upstream[k - 1].n \in {1, 2}
                      /\ upstream[k - 1].n = 1 => upstream[k].n = 100
                      /\ upstream[k - 1].n = 2 => upstream[k].n = 200
                      /\ k < Len(upstream)
                             => /\ upstream[k + 1].svc = upstream[k - 1].svc
                                /\ upstream[k + 1].n = upstream[k - 1].n + 1
            /\ (IsAiCall(upstream[k]) /\ upstream[k].res # "ok"
                /\ upstream[k].n < 3)
                   => /\ k < Len(upstream)
                      /\ upstream[k + 1].svc = "sleep"
            /\ (IsAiCall(upstream[k]) /\ upstream[k].res # "ok"
                /\ upstream[k].n = 3 /\ k < Len(upstream))
                   => upstream[k + 1] \in { Call("openai", r, 1) : r \in HttpReplies }

C20_Witness ==
    /\ endpoint = "analyze" /\ Len(upstream) = 7
    /\ upstream[3] = Call("sleep", "-", 100)
    /\ upstream[5] = Call("sleep", "-", 200)
    /\ upstream[6].svc = "grok" /\ upstream[6].res # "ok"
    /\ upstream[7].svc = "openai"



\* a market was fetched for this request and it has fewer than 2 outcomes
FetchedTooFew ==
    /\ endpoint \in {"limit", "tracker"}
    /\ upstream # <<>> /\ upstream[1] = Call("gamma", "ok", 0)
    /\ Len(market) < 2

\* C21: in the limit-order-bot and position-tracker flows a fetched market with
\* fewer than 2 outcomes ends the request with a Validation error; the market
\* fetch is the request's only upstream call: no order is submitted or started
\* and no position fetch is made.
C21_TooFewOutcomesRejected ==
    FetchedTooFew =>
        /\ pc = "done"
        /\ response = Fail("Validation", "handler")
        /\ Len(upstream) = 1
        /\ sink = <<>> /\ inflight = <<>> /\ queue = <<>> /\ orders = <<>>
        /\ positions = <<>>

C21_Witness ==
    /\ endpoint = "tracker" /\ Len(market) = 1
    /\ upstream = <<Call("gamma", "ok", 0)>>
    /\ response = Fail("Validation", "handler")



AnalyzeDone == endpoint = "analyze" /\ response.status = "ok"

\* C22: in every successful analyze response model_used names the provider
\* whose completion call produced the returned verdict; after a failover from
\* Grok to OpenAI it names OpenAI.
C22_ModelUsedNamesAnswerer ==
    AnalyzeDone => response.model_used = response.by



\* the verdict of a successful analyze response came from the failover run
FromFailover == provider = "grok" /\ response.by = "openai"

\* C23: in every successful analyze response retries is 1 exactly when the
\* verdict came from the failover provider and 0 otherwise, however many
\* failed attempts happened inside a provider's retry loop.
C23_RetriesCountsFailover ==
    AnalyzeDone =>
        /\ response.retries \in {0, 1}
        /\ response.retries = 1 <=> FromFailover
        /\ FromFailover <=> (Exhausted("grok") /\ AiCalls(upstream, "openai") # <<>>)

\* a Grok success on attempt 3 reports retries = 0
C23_Witness ==
    /\ AnalyzeDone /\ response.by = "grok"
    /\ Len(AiCalls(upstream, "grok")) = 3
    /\ response.retries = 0



\* C24: whenever the classifier returns a verdict other than NO_POSITION, the
\* Up side and the Down side it combined are two different positions of the
\* list: one position whose label contains both "Up" and "Down" is never
\* counted as both sides.
C24_SidesAreDistinctPositions ==
    (TrackerDone /\ response.pair.pair_status # "NO_POSITION") =>
        FindLabel(response.positions, Up) # FindLabel(response.positions, Down)



\* the market fetch succeeded, so the handler went on to make the first client
ReachedFirstClient ==
    /\ endpoint = "analyze"
    /\ upstream # <<>> /\ upstream[1] = Call("dome", "ok", 0)

\* C25: when the first provider's client cannot be constructed the request
\* ends with that construction error, with no AI call at all and the alternate
\* provider never tried; a failover run exists only after a constructed Grok
\* client, invoked first, failed all its calls; and an error surfaced after the
\* failover started is the failover provider's, never Grok's.
C25_FailoverOnlyAfterGrokRan ==
    endpoint = "analyze" =>
        /\ (ReachedFirstClient /\ ~env[provider])
               => /\ pc = "done"
                  /\ response = Fail("Validation", provider)
                  /\ AllAiCalls(upstream) = <<>>
                  /\ Len(upstream) = 1
                  /\ retries = 0
        /\ (pc = "failover" \/ retries = 1
            \/ (provider = "grok" /\ AiCalls(upstream, "openai") # <<>>))
               => /\ provider = "grok" /\ env.grok
                  /\ FirstAiCallIs("grok") /\ Exhausted("grok")
        /\ (retries = 1 /\ response.status = "err")
               => /\ response.from = "openai"
                  /\ env.openai => /\ Exhausted("openai")
                                   /\ response = Fail("ExternalApi", "openai")

\* Grok's credential is missing while OpenAI's is set: no failover
C25_Witness ==
    /\ endpoint = "analyze" /\ request.model = None
    /\ ~env.grok /\ env.openai
    /\ upstream = <<Call("dome", "ok", 0)>>
    /\ response = Fail("Validation", "grok")

====
